---- MODULE Spec2Model ----
(***************************************************************************)
(* The webhook handlers of openreferee_server/server.py: the event store,  *)
(* the authorization guard require_event_token, the event lifecycle        *)
(* (create_event, remove_event, get_event_info), create_editable with its  *)
(* timer-driven watermark_revision_files loop, and review_editable.        *)
(*                                                                         *)
(* Strings that the code slices or compares character by character (the    *)
(* Authorization header and the tokens) are sequences of characters.       *)
(***************************************************************************)
EXTENDS Integers, Sequences, FiniteSets, TLC

VARIABLES
    store,       \* the committed rows of the events table
    txn,         \* per request thread: the create_event it is inside of
    tasks,       \* the polling tasks started by create_editable, oldest first
    resp,        \* the request that completed last, with its steps and response
    registered   \* per identifier: the body its stored event was created from

vars == <<store, txn, tasks, resp, registered>>

(***************************************************************************)
(* Bounds of the model.                                                    *)
(***************************************************************************)
\* polls of one polling task that the hub may answer with anything; every
\* later poll of the task is answered with 200
MaxPolls == 3
\* polling tasks (authorized create_editable requests) in one behaviour
MaxTasks == 1

(***************************************************************************)
(* Inputs.                                                                 *)
(***************************************************************************)
Identifiers == {"e1"}

\* request-handling threads that may be inside create_event
Workers == {"w1", "w2"}

TOK == <<"t", "o", "k">>
TOK2 == <<"t", "o", "k", "2">>

\* the JSON bodies of PUT /event/<identifier>
EventBodies ==
    { [title |-> "T", url |-> "u", token |-> TOK,
       endpoints |-> [editable_types |-> "hub/a/et", file_types |-> "hub/a/ft"]],
      [title |-> "T2", url |-> "u2", token |-> TOK2,
       endpoints |-> [editable_types |-> "hub/b/et", file_types |-> "hub/b/ft"]],
      [title |-> "T3", url |-> "u3", token |-> TOK,
       endpoints |-> [file_types |-> "hub/c/ft"]] }

\* the value of request.headers.get("Authorization"): None, or a string
NoHeader == [present |-> FALSE, value |-> <<>>]
Header(s) == [present |-> TRUE, value |-> s]
Bearer == <<"B", "e", "a", "r", "e", "r", " ">>
Headers ==
    { NoHeader,
      Header(TOK),
      Header(Bearer),
      Header(Bearer \o TOK),
      Header(Bearer \o TOK2) }

\* status codes the hub answers with
HubStatuses == {200, 404, 500}

(***************************************************************************)
(* Responses and the record of a completed request.                        *)
(***************************************************************************)
NoBody == <<>>
Response(status, reason, body) == [status |-> status, reason |-> reason, body |-> body]
NotFound == Response(404, "Unknown event", NoBody)
TokenMissing == Response(401, "Token missing", NoBody)
InvalidToken == Response(401, "Invalid token", NoBody)
Conflict == Response(409, "Event already exists", NoBody)
UnprocessableEntity == Response(422, "Unprocessable Entity", NoBody)
InternalServerError == Response(500, "Internal Server Error", NoBody)

\* one step of a request: a call that returned, a call that raised, or an
\* HTTP call to the hub with the status it answered
Step(name, raised, status, result) ==
    [step |-> name, raised |-> raised, status |-> status, result |-> result]
Call(name) == Step(name, FALSE, 0, <<>>)
Raise(name) == Step(name, TRUE, 0, <<>>)
Http(name, status) == Step(name, FALSE, status, <<>>)
Outcome(name, ok) == IF ok THEN Call(name) ELSE Raise(name)

Completed(handler, identifier, auth, payload, trace, response) ==
    [handler |-> handler, identifier |-> identifier, auth |-> auth,
     payload |-> payload, trace |-> trace, response |-> response]

NoPayload == [valid |-> FALSE]

(***************************************************************************)
(* The event store.                                                        *)
(***************************************************************************)
Event_swapped(identifier, title, url, token, endpoints) ==
    [identifier |-> identifier, title |-> url, url |-> title,
     token |-> token, endpoints |-> endpoints]

\* lines 103-105
Event(identifier, title, url, token, endpoints) ==
    [identifier |-> identifier, title |-> title, url |-> url,
     token |-> token, endpoints |-> endpoints]

\* Event.query.get(identifier): the committed rows with that primary key
Query_get(rows, identifier) == {e \in rows : e.identifier = identifier}

Idle == [pc |-> "idle"]

Init ==
    /\ store = {}
    /\ txn = [w \in Workers |-> Idle]
    /\ tasks = <<>>
    /\ resp = Completed("none", "", NoHeader, NoPayload, <<>>, Response(0, "", NoBody))
    /\ registered = [identifier \in Identifiers |-> <<>>]

(***************************************************************************)
(* require_event_token: the guard wrapped around every handler but         *)
(* create_event.                                                           *)
(***************************************************************************)
\* s.startswith(prefix)
startswith(s, prefix) ==
    /\ Len(s) >= Len(prefix)
    /\ SubSeq(s, 1, Len(prefix)) = prefix

\* lines 45-48: the token read from the header; <<>> stands for None and ""
BearerToken(auth) ==
    IF auth.present /\ auth.value # <<>> /\ startswith(auth.value, Bearer)
    THEN SubSeq(auth.value, 8, Len(auth.value))
    ELSE <<>>

Rejected(response) == [ok |-> FALSE, response |-> response]
Authorized(event) == [ok |-> TRUE, event |-> event]

require_event_token_prefix(rows, identifier, auth) ==
    LET found == Query_get(rows, identifier)
        token == BearerToken(auth)
    IN  IF found = {} THEN Rejected(NotFound)
        ELSE LET event == CHOOSE e \in found : TRUE
             IN  IF token = <<>> THEN Rejected(TokenMissing)
                 ELSE IF ~startswith(event.token, token) THEN Rejected(InvalidToken)
                 ELSE Authorized(event)

\* lines 38-55
require_event_token(rows, identifier, auth) ==
    LET found == Query_get(rows, identifier)
        token == BearerToken(auth)
    IN  IF found = {} THEN Rejected(NotFound)
        ELSE LET event == CHOOSE e \in found : TRUE
             IN  IF token = <<>> THEN Rejected(TokenMissing)
                 ELSE IF token # event.token THEN Rejected(InvalidToken)
                 ELSE Authorized(event)

(***************************************************************************)
(* create_event, one action per statement that can be interleaved with     *)
(* another request or can raise.                                           *)
(***************************************************************************)
raise_for_status_5xx(status) == status >= 500 /\ status < 600

\* line 119: response.raise_for_status()
raise_for_status(status) == status >= 400 /\ status < 600

InFlight(w) == txn[w].pc # "idle"

\* the request has flushed its INSERT of that primary key and has neither
\* committed nor rolled back
Holds(w, identifier) ==
    /\ txn[w].pc \notin {"idle", "waiting"}
    /\ txn[w].event.identifier = identifier

\* the exception leaves the view: the session is discarded with the
\* uncommitted row and the client gets a 500
Abort(w, trace) ==
    /\ txn' = [txn EXCEPT ![w] = Idle]
    /\ resp' = Completed("create_event", txn[w].event.identifier, NoHeader,
                         txn[w].body, trace, InternalServerError)
    /\ UNCHANGED <<store, tasks, registered>>

Proceed(w, pc, trace) ==
    /\ txn' = [txn EXCEPT ![w] = [@ EXCEPT !.pc = pc, !.trace = trace]]
    /\ UNCHANGED <<store, tasks, resp, registered>>

create_event_merge(w, identifier, title, url, token, endpoints) ==
    LET event == Event(identifier, title, url, token, endpoints)
        body == [title |-> title, url |-> url, token |-> token, endpoints |-> endpoints]
    IN  /\ ~InFlight(w)
        /\ ~\E o \in Workers : Holds(o, identifier)
        /\ IF Query_get(store, identifier) # {}
           THEN /\ store' = (store \ Query_get(store, identifier)) \cup {event}
                /\ resp' = Completed("create_event", identifier, NoHeader, body,
                                     <<Call("flush")>>, Conflict)
                /\ UNCHANGED <<txn, tasks, registered>>
           ELSE /\ txn' = [txn EXCEPT ![w] =
                               [pc |-> "flushed", event |-> event, body |-> body,
                                trace |-> <<Call("flush")>>]]
                /\ UNCHANGED <<store, tasks, resp, registered>>

create_event_tags_first(w, identifier, title, url, token, endpoints) ==
    LET event == Event(identifier, title, url, token, endpoints)
        body == [title |-> title, url |-> url, token |-> token, endpoints |-> endpoints]
    IN  /\ ~InFlight(w)
        /\ ~\E o \in Workers : Holds(o, identifier)
        /\ IF Query_get(store, identifier) # {}
           THEN /\ resp' = Completed("create_event", identifier, NoHeader, body,
                                     <<Call("setup_event_tags"), Raise("flush")>>,
                                     Conflict)
                /\ UNCHANGED <<store, txn, tasks, registered>>
           ELSE /\ txn' = [txn EXCEPT ![w] =
                               [pc |-> "flushed", event |-> event, body |-> body,
                                trace |-> <<Call("flush")>>]]
                /\ UNCHANGED <<store, tasks, resp, registered>>

\* lines 103-110: the INSERT waits for an uncommitted row with the same key
create_event(w, identifier, title, url, token, endpoints) ==
    LET event == Event(identifier, title, url, token, endpoints)
        body == [title |-> title, url |-> url, token |-> token, endpoints |-> endpoints]
    IN  /\ ~InFlight(w)
        /\ ~\E o \in Workers : Holds(o, identifier)
        /\ IF Query_get(store, identifier) # {}
           THEN /\ resp' = Completed("create_event", identifier, NoHeader, body,
                                     <<Raise("flush")>>, Conflict)
                /\ UNCHANGED <<store, txn, tasks, registered>>
           ELSE /\ txn' = [txn EXCEPT ![w] =
                               [pc |-> "flushed", event |-> event, body |-> body,
                                trace |-> <<Call("flush")>>]]
                /\ UNCHANGED <<store, tasks, resp, registered>>

\* lines 103-107 while another request holds an uncommitted row with the same
\* key: the INSERT of the flush waits for that request to end
create_event_blocked(w, identifier, title, url, token, endpoints) ==
    /\ ~InFlight(w)
    /\ \E o \in Workers : Holds(o, identifier)
    /\ txn' = [txn EXCEPT ![w] =
                   [pc |-> "waiting",
                    event |-> Event(identifier, title, url, token, endpoints),
                    body |-> [title |-> title, url |-> url, token |-> token,
                              endpoints |-> endpoints],
                    trace |-> <<>>]]
    /\ UNCHANGED <<store, tasks, resp, registered>>

create_event_flush_uncaught(w) ==
    /\ txn[w].pc = "waiting"
    /\ ~\E o \in Workers : Holds(o, txn[w].event.identifier)
    /\ IF Query_get(store, txn[w].event.identifier) # {}
       THEN Abort(w, <<Raise("flush")>>)
       ELSE Proceed(w, "flushed", <<Call("flush")>>)

\* lines 107-110 once the other request has ended: the flush raises
\* IntegrityError when that request committed, and returns when it rolled back
create_event_flush(w) ==
    /\ txn[w].pc = "waiting"
    /\ ~\E o \in Workers : Holds(o, txn[w].event.identifier)
    /\ IF Query_get(store, txn[w].event.identifier) # {}
       THEN /\ txn' = [txn EXCEPT ![w] = Idle]
            /\ resp' = Completed("create_event", txn[w].event.identifier, NoHeader,
                                 txn[w].body, <<Raise("flush")>>, Conflict)
            /\ UNCHANGED <<store, tasks, registered>>
       ELSE Proceed(w, "flushed", <<Call("flush")>>)

\* lines 113-114
create_event_tags(w) ==
    /\ txn[w].pc = "flushed"
    /\ \E ok \in BOOLEAN :
          LET trace == Append(txn[w].trace, Outcome("setup_event_tags", ok))
          IN  IF ok THEN Proceed(w, "tags", trace) ELSE Abort(w, trace)

\* lines 116-119
create_event_post(w) ==
    /\ txn[w].pc = "tags"
    /\ IF "editable_types" \notin DOMAIN txn[w].event.endpoints
       THEN Abort(w, Append(txn[w].trace, Raise("endpoints[editable_types]")))
       ELSE \E status \in HubStatuses :
            LET trace == Append(txn[w].trace, Http("post_editable_types", status))
            IN  IF raise_for_status(status)
                THEN Abort(w, trace)
                ELSE Proceed(w, "posted", trace)

\* line 121
create_event_file_types(w) ==
    /\ txn[w].pc = "posted"
    /\ \E ok \in BOOLEAN :
          LET trace == Append(txn[w].trace, Outcome("setup_file_types", ok))
          IN  IF ok THEN Proceed(w, "file_types", trace) ELSE Abort(w, trace)

\* lines 123-124
create_event_commit(w) ==
    /\ txn[w].pc = "file_types"
    /\ store' = store \cup {txn[w].event}
    /\ registered' = [registered EXCEPT ![txn[w].event.identifier] = <<txn[w].body>>]
    /\ txn' = [txn EXCEPT ![w] = Idle]
    /\ resp' = Completed("create_event", txn[w].event.identifier, NoHeader,
                         txn[w].body, Append(txn[w].trace, Call("commit")),
                         Response(201, "", NoBody))
    /\ UNCHANGED tasks

(***************************************************************************)
(* remove_event and get_event_info.                                        *)
(***************************************************************************)
Guard == Call("require_event_token")

remove_event_swallow(identifier, auth) ==
    LET guard == require_event_token(store, identifier, auth)
    IN  IF ~guard.ok
        THEN /\ resp' = Completed("remove_event", identifier, auth, NoPayload,
                                  <<Guard>>, guard.response)
             /\ UNCHANGED <<store, txn, tasks, registered>>
        ELSE \E cleaned \in BOOLEAN :
             /\ store' = store \ {guard.event}
             /\ registered' = [registered EXCEPT ![identifier] = <<>>]
             /\ resp' = Completed("remove_event", identifier, auth, NoPayload,
                                  <<Guard, Outcome("cleanup_event", cleaned),
                                    Call("delete"), Call("commit")>>,
                                  Response(204, "", NoBody))
             /\ UNCHANGED <<txn, tasks>>

remove_event_cleanup_first(identifier, auth) ==
    LET guard == require_event_token(store, identifier, auth)
    IN  IF ~guard.ok
        THEN /\ resp' = Completed("remove_event", identifier, auth, NoPayload,
                                  <<Call("cleanup_event"), Guard>>, guard.response)
             /\ store' = store \ Query_get(store, identifier)
             /\ UNCHANGED <<txn, tasks, registered>>
        ELSE /\ store' = store \ {guard.event}
             /\ registered' = [registered EXCEPT ![identifier] = <<>>]
             /\ resp' = Completed("remove_event", identifier, auth, NoPayload,
                                  <<Guard, Call("cleanup_event"),
                                    Call("delete"), Call("commit")>>,
                                  Response(204, "", NoBody))
             /\ UNCHANGED <<txn, tasks>>

remove_event_cancels(identifier, auth) ==
    LET guard == require_event_token(store, identifier, auth)
    IN  IF ~guard.ok
        THEN /\ resp' = Completed("remove_event", identifier, auth, NoPayload,
                                  <<Guard>>, guard.response)
             /\ UNCHANGED <<store, txn, tasks, registered>>
        ELSE \E cleaned \in BOOLEAN :
             IF ~cleaned
             THEN /\ resp' = Completed("remove_event", identifier, auth, NoPayload,
                                       <<Guard, Raise("cleanup_event")>>,
                                       InternalServerError)
                  /\ UNCHANGED <<store, txn, tasks, registered>>
             ELSE /\ store' = store \ {guard.event}
                  /\ registered' = [registered EXCEPT ![identifier] = <<>>]
                  /\ tasks' = [i \in DOMAIN tasks |->
                                  IF tasks[i].event = guard.event
                                  THEN [tasks[i] EXCEPT !.timers = 0]
                                  ELSE tasks[i]]
                  /\ resp' = Completed("remove_event", identifier, auth, NoPayload,
                                       <<Guard, Call("cleanup_event"),
                                         Call("delete"), Call("commit")>>,
                                       Response(204, "", NoBody))
                  /\ UNCHANGED txn

remove_event(identifier, auth) ==
    LET guard == require_event_token(store, identifier, auth)
    IN  IF ~guard.ok
        THEN /\ resp' = Completed("remove_event", identifier, auth, NoPayload,
                                  <<Guard>>, guard.response)
             /\ UNCHANGED <<store, txn, tasks, registered>>
        ELSE \E cleaned \in BOOLEAN :
             IF ~cleaned
             THEN /\ resp' = Completed("remove_event", identifier, auth, NoPayload,
                                       <<Guard, Raise("cleanup_event")>>,
                                       InternalServerError)
                  /\ UNCHANGED <<store, txn, tasks, registered>>
             ELSE /\ store' = store \ {guard.event}
                  /\ registered' = [registered EXCEPT ![identifier] = <<>>]
                  /\ resp' = Completed("remove_event", identifier, auth, NoPayload,
                                       <<Guard, Call("cleanup_event"),
                                         Call("delete"), Call("commit")>>,
                                       Response(204, "", NoBody))
                  /\ UNCHANGED <<txn, tasks>>

\* EventInfoSchema().dump(event)
EventInfoSchema_dump(event) ==
    [identifier |-> event.identifier, title |-> event.title, url |-> event.url,
     endpoints |-> event.endpoints]

\* lines 155-176
get_event_info(identifier, auth) ==
    LET guard == require_event_token(store, identifier, auth)
    IN  /\ resp' = IF ~guard.ok
                   THEN Completed("get_event_info", identifier, auth, NoPayload,
                                  <<Guard>>, guard.response)
                   ELSE Completed("get_event_info", identifier, auth, NoPayload,
                                  <<Guard, Call("EventInfoSchema.dump")>>,
                                  Response(200, "", <<EventInfoSchema_dump(guard.event)>>))
        /\ UNCHANGED <<store, txn, tasks, registered>>

(***************************************************************************)
(* create_editable and the polling of the revision-details endpoint.       *)
(***************************************************************************)
InvalidBody == [valid |-> FALSE]

\* the JSON bodies of PUT .../editable/<type>/<contrib_id>: one that
\* CreateEditableSchema rejects and one that it loads
EditableBodies ==
    { InvalidBody,
      [valid |-> TRUE,
       revision |-> [files |-> <<"paper.pdf">>],
       endpoints |-> [revisions |-> [details |-> "hub/rev/details"]]] }

Parse == Call("use_kwargs")

\* setup_requests_session(token): the session's default headers
setup_requests_session(token) == [Authorization |-> Bearer \o token]

\* line 218: the interval of threading.Timer(5.0, ...), in seconds
RetryDelay == 5

\* line 208 and the closure of lines 210-220: what watermark_revision_files
\* captures, with the history of what it has done so far: request is the GET
\* it sent last, delay the interval of the timer it started last
Task(event, revision, endpoints) ==
    [event |-> event, session |-> setup_requests_session(event.token),
     revision |-> revision, endpoints |-> endpoints,
     polls |-> 0, request_polls |-> 0, misses |-> 0, last |-> 0,
     request |-> [url |-> "", Authorization |-> <<>>],
     timers |-> 0, delay |-> 0, processed |-> <<>>]

\* one call of process_editable_files(session, event, files, endpoints);
\* stored tells whether the event's row was in the store when it was called
Processing(task, files, endpoints, thread) ==
    [session |-> task.session, event |-> task.event, files |-> files,
     endpoints |-> endpoints, after_poll |-> task.polls, thread |-> thread,
     stored |-> task.event \in store]

\* line 213: session.get(endpoints["revisions"]["details"])
Polled(task, thread, status) ==
    [task EXCEPT !.polls = @ + 1,
                 !.request = [url |-> task.endpoints.revisions.details,
                              Authorization |-> task.session.Authorization],
                 !.request_polls = IF thread = "request" THEN @ + 1 ELSE @,
                 !.misses = IF status = 200 THEN @ ELSE @ + 1,
                 !.last = status]

watermark_revision_files_no_return(task, thread, status) ==
    LET polled == Polled(task, thread, status)
    IN  IF status = 200
        THEN [polled EXCEPT !.processed =
                 Append(@, Processing(polled, task.revision.files, task.endpoints, thread)),
                            !.timers = @ + 1, !.delay = RetryDelay]
        ELSE [polled EXCEPT !.timers = @ + 1, !.delay = RetryDelay]

watermark_revision_files_gives_up(task, thread, status) ==
    LET polled == Polled(task, thread, status)
    IN  IF status = 200
        THEN [polled EXCEPT !.processed =
                 Append(@, Processing(polled, task.revision.files, task.endpoints, thread))]
        ELSE IF status >= 500 THEN polled
        ELSE [polled EXCEPT !.timers = @ + 1, !.delay = RetryDelay]

watermark_revision_files_refetch(task, thread, status) ==
    LET found == Query_get(store, task.event.identifier)
        event == IF found = {} THEN task.event ELSE CHOOSE e \in found : TRUE
        fresh == [task EXCEPT !.event = event,
                              !.session = setup_requests_session(event.token)]
        polled == Polled(fresh, thread, status)
    IN  IF status = 200
        THEN [polled EXCEPT !.processed =
                 Append(@, Processing(polled, task.revision.files, task.endpoints, thread))]
        ELSE [polled EXCEPT !.timers = @ + 1, !.delay = RetryDelay]

watermark_revision_files_backoff(task, thread, status) ==
    LET polled == Polled(task, thread, status)
    IN  IF status = 200
        THEN [polled EXCEPT !.processed =
                 Append(@, Processing(polled, task.revision.files, task.endpoints, thread))]
        ELSE [polled EXCEPT !.timers = @ + 1, !.delay = RetryDelay * polled.polls]

\* lines 211-220, one call: thread is the thread it runs on, status the hub's
\* answer to the GET of endpoints["revisions"]["details"]
watermark_revision_files(task, thread, status) ==
    LET polled == Polled(task, thread, status)
    IN  IF status = 200
        THEN [polled EXCEPT !.processed =
                 Append(@, Processing(polled, task.revision.files, task.endpoints, thread))]
        ELSE [polled EXCEPT !.timers = @ + 1, !.delay = RetryDelay]

\* whether process_editable_files returns (TRUE) or raises (FALSE) on the
\* request's thread; it is only called when the poll answered 200
Returns(status) == IF status = 200 THEN BOOLEAN ELSE {TRUE}

\* lines 179-223
create_editable(identifier, auth, body) ==
    IF ~body.valid
    THEN /\ resp' = Completed("create_editable", identifier, auth, body,
                              <<Raise("use_kwargs")>>, UnprocessableEntity)
         /\ UNCHANGED <<store, txn, tasks, registered>>
    ELSE LET guard == require_event_token(store, identifier, auth)
         IN  IF ~guard.ok
             THEN /\ resp' = Completed("create_editable", identifier, auth, body,
                                       <<Parse, Guard>>, guard.response)
                  /\ UNCHANGED <<store, txn, tasks, registered>>
             ELSE \E status \in HubStatuses :
                  \E ok \in Returns(status) :
                  LET task == watermark_revision_files(
                                  Task(guard.event, body.revision, body.endpoints),
                                  "request", status)
                      steps == <<Parse, Guard, Call("setup_requests_session"),
                                 Http("get_revision_details", status)>>
                  IN  /\ Len(tasks) < MaxTasks
                      /\ tasks' = Append(tasks, task)
                      /\ resp' = Completed("create_editable", identifier, auth, body,
                                     IF status # 200
                                     THEN Append(steps, Call("Timer.start"))
                                     ELSE Append(steps, Outcome("process_editable_files", ok)),
                                     IF status = 200 /\ ~ok THEN InternalServerError
                                     ELSE Response(201, "", NoBody))
                      /\ UNCHANGED <<store, txn, registered>>

\* the threading.Timer of lines 218-220 fires and calls watermark_revision_files
TimerFire(i) ==
    /\ tasks[i].timers > 0
    /\ \E status \in HubStatuses :
          /\ tasks[i].polls < MaxPolls \/ status = 200
          /\ tasks' = [tasks EXCEPT ![i] =
                          watermark_revision_files([@ EXCEPT !.timers = @ - 1],
                                                   "timer", status)]
    /\ UNCHANGED <<store, txn, resp, registered>>

(***************************************************************************)
(* review_editable.                                                        *)
(***************************************************************************)
FinalStates == {"accepted", "rejected", "pending"}

\* the JSON bodies of POST .../editable/<type>/<contrib_id>/<revision_id>
ReviewBodies ==
    {InvalidBody} \cup
    { [valid |-> TRUE, revision |-> [final_state |-> [name |-> n]]] : n \in FinalStates }

\* what process_revision(event, revision) does: returns a result or raises
ProcessResults ==
    { [raised |-> TRUE, result |-> <<>>],
      [raised |-> FALSE, result |-> <<[publish |-> TRUE]>>],
      [raised |-> FALSE, result |-> <<[publish |-> FALSE]>>] }

review_editable_unless_rejected(identifier, auth, body) ==
    IF ~body.valid
    THEN /\ resp' = Completed("review_editable", identifier, auth, body,
                              <<Raise("use_kwargs")>>, UnprocessableEntity)
         /\ UNCHANGED <<store, txn, tasks, registered>>
    ELSE LET guard == require_event_token(store, identifier, auth)
             steps == <<Parse, Guard>>
         IN  IF ~guard.ok
             THEN /\ resp' = Completed("review_editable", identifier, auth, body,
                                       steps, guard.response)
                  /\ UNCHANGED <<store, txn, tasks, registered>>
             ELSE IF body.revision.final_state.name # "rejected"
             THEN \E processed \in ProcessResults :
                  /\ resp' = Completed("review_editable", identifier, auth, body,
                                 Append(steps, Step("process_revision", processed.raised,
                                                    0, processed.result)),
                                 IF processed.raised THEN InternalServerError
                                 ELSE Response(201, "", processed.result))
                  /\ UNCHANGED <<store, txn, tasks, registered>>
             ELSE /\ resp' = Completed("review_editable", identifier, auth, body,
                                       steps, Response(201, "", NoBody))
                  /\ UNCHANGED <<store, txn, tasks, registered>>

\* lines 226-263
review_editable(identifier, auth, body) ==
    IF ~body.valid
    THEN /\ resp' = Completed("review_editable", identifier, auth, body,
                              <<Raise("use_kwargs")>>, UnprocessableEntity)
         /\ UNCHANGED <<store, txn, tasks, registered>>
    ELSE LET guard == require_event_token(store, identifier, auth)
             steps == <<Parse, Guard>>
         IN  IF ~guard.ok
             THEN /\ resp' = Completed("review_editable", identifier, auth, body,
                                       steps, guard.response)
                  /\ UNCHANGED <<store, txn, tasks, registered>>
             ELSE IF body.revision.final_state.name = "accepted"
             THEN \E processed \in ProcessResults :
                  /\ resp' = Completed("review_editable", identifier, auth, body,
                                 Append(steps, Step("process_revision", processed.raised,
                                                    0, processed.result)),
                                 IF processed.raised THEN InternalServerError
                                 ELSE Response(201, "", processed.result))
                  /\ UNCHANGED <<store, txn, tasks, registered>>
             ELSE /\ resp' = Completed("review_editable", identifier, auth, body,
                                       steps, Response(201, "", NoBody))
                  /\ UNCHANGED <<store, txn, tasks, registered>>

(***************************************************************************)
(* The specification.                                                      *)
(***************************************************************************)
CreateEventBy(w) ==
    \/ \E identifier \in Identifiers, b \in EventBodies :
           create_event(w, identifier, b.title, b.url, b.token, b.endpoints)
    \/ create_event_tags(w)
    \/ create_event_post(w)
    \/ create_event_file_types(w)
    \/ create_event_commit(w)

\* create_event requests served one after the other
CreateEvent == CreateEventBy("w1")

\* create_event requests served by several threads at once
ConcurrentCreateEvent ==
    \E w \in Workers :
        \/ CreateEventBy(w)
        \/ \E identifier \in Identifiers, b \in EventBodies :
               create_event_blocked(w, identifier, b.title, b.url, b.token, b.endpoints)
        \/ create_event_flush(w)

RemoveEvent ==
    \E identifier \in Identifiers, auth \in Headers : remove_event(identifier, auth)

GetEventInfo ==
    \E identifier \in Identifiers, auth \in Headers : get_event_info(identifier, auth)

CreateEditable ==
    \E identifier \in Identifiers, auth \in Headers, body \in EditableBodies :
        create_editable(identifier, auth, body)

Timer ==
    \E i \in DOMAIN tasks : TimerFire(i)

ReviewEditable ==
    \E identifier \in Identifiers, auth \in Headers, body \in ReviewBodies :
        review_editable(identifier, auth, body)

Next ==
    \/ ConcurrentCreateEvent
    \/ RemoveEvent
    \/ GetEventInfo
    \/ CreateEditable
    \/ Timer
    \/ ReviewEditable

Spec == Init /\ [][Next]_vars

\* the request handlers alone: timers that were started have not fired yet
NextHandlers ==
    \/ CreateEvent
    \/ RemoveEvent
    \/ GetEventInfo
    \/ CreateEditable
    \/ ReviewEditable

SpecHandlers == Init /\ [][NextHandlers]_vars

\* the polling tasks with the handlers that start them and that create and
\* remove the events they were started for
NextPolling ==
    \/ CreateEvent
    \/ RemoveEvent
    \/ CreateEditable
    \/ Timer

SpecPolling == Init /\ [][NextPolling]_vars

\* the polling tasks with timers that fire: a threading.Timer is a thread of
\* its own that calls its function once its interval has passed, for as long
\* as the process is alive
TimerOf(i) == i \in DOMAIN tasks /\ TimerFire(i)

\* the requests that the guard lets through
AuthorizedRemoveEvent ==
    \E identifier \in Identifiers, auth \in Headers :
        /\ require_event_token(store, identifier, auth).ok
        /\ remove_event(identifier, auth)

AuthorizedCreateEditable ==
    \E identifier \in Identifiers, auth \in Headers, body \in EditableBodies :
        /\ body.valid
        /\ require_event_token(store, identifier, auth).ok
        /\ create_editable(identifier, auth, body)

NextTimers ==
    \/ CreateEvent
    \/ AuthorizedRemoveEvent
    \/ AuthorizedCreateEditable
    \/ Timer

SpecTimers ==
    /\ Init
    /\ [][NextTimers]_vars
    /\ \A i \in 1..MaxTasks : WF_vars(TimerOf(i))

\* create_event requests racing for the store
SpecConcurrent == Init /\ [][ConcurrentCreateEvent]_vars

(***************************************************************************)
(* Vocabulary of the properties, stated without the operators above.       *)
(***************************************************************************)
Names(trace) == [i \in 1..Len(trace) |-> trace[i].step]

Ran(trace, name) == \E i \in 1..Len(trace) : trace[i].step = name

\* the call returned and, for a hub call, the hub answered 2xx
Succeeded(e) == ~e.raised /\ (e.status = 0 \/ (e.status >= 200 /\ e.status < 300))

Known(identifier) == \E e \in store : e.identifier = identifier

Stored(identifier) == CHOOSE e \in store : e.identifier = identifier

\* the header is "Bearer " followed by at least one character
HasBearerForm(auth) ==
    /\ auth.present
    /\ Len(auth.value) > 7
    /\ \A i \in 1..7 : auth.value[i] = Bearer[i]

Presented(auth) == SubSeq(auth.value, 8, Len(auth.value))

Authentic(identifier, auth) ==
    /\ Known(identifier)
    /\ HasBearerForm(auth)
    /\ Presented(auth) = Stored(identifier).token

(***************************************************************************)
(* C1                                                                      *)
(***************************************************************************)
\* C1: a create_event for an identifier that is already in the store answers
\* Conflict, and the store (so the stored record's title, url, token and
\* endpoints) is the same after the call as before it.
C1_ConflictKeepsRecord ==
    [][\A w \in Workers, identifier \in Identifiers, b \in EventBodies :
          (/\ Known(identifier)
           /\ create_event(w, identifier, b.title, b.url, b.token, b.endpoints))
          => /\ resp'.handler = "create_event"
             /\ resp'.identifier = identifier
             /\ resp'.response = Conflict
             /\ store' = store
             /\ Stored(identifier)' = Stored(identifier)]_vars

\* a Conflict was answered to a body that differs from the stored record in
\* every field, and the stored record is still the one registered before
C1_Witness ==
    /\ resp.handler = "create_event"
    /\ resp.response = Conflict
    /\ Known(resp.identifier)
    /\ Stored(resp.identifier).title # resp.payload.title
    /\ Stored(resp.identifier).url # resp.payload.url
    /\ Stored(resp.identifier).token # resp.payload.token
    /\ Stored(resp.identifier).endpoints # resp.payload.endpoints

(***************************************************************************)
(* C2                                                                      *)
(***************************************************************************)
CreateSteps ==
    <<"flush", "setup_event_tags", "post_editable_types", "setup_file_types", "commit">>

\* a step of the request after the flush did not succeed
SetupFailed(trace) ==
    \E i \in 1..Len(trace) : trace[i].step # "flush" /\ ~Succeeded(trace[i])

\* C2: a row enters the store only at the commit of a create_event whose steps
\* were flush, tag setup, the editable_types POST and file-type setup, in that
\* order and all successful; when one of them fails the request ends there
\* with an error, no later step runs and the store holds no event with that
\* identifier.
C2_CommitAfterSetup ==
    [][/\ (store' \ store # {}) =>
             /\ resp'.handler = "create_event"
             /\ resp'.response.status = 201
             /\ Names(resp'.trace) = CreateSteps
             /\ \A i \in 1..Len(resp'.trace) : Succeeded(resp'.trace[i])
             /\ store' \ store =
                   {[identifier |-> resp'.identifier, title |-> resp'.payload.title,
                     url |-> resp'.payload.url, token |-> resp'.payload.token,
                     endpoints |-> resp'.payload.endpoints]}
       /\ (resp'.handler = "create_event" /\ SetupFailed(resp'.trace)) =>
             /\ resp'.response = InternalServerError
             /\ \A i \in 1..Len(resp'.trace) :
                   /\ ~Succeeded(resp'.trace[i]) => i = Len(resp'.trace)
                   /\ i < Len(resp'.trace) => resp'.trace[i].step = CreateSteps[i]
             /\ ~Ran(resp'.trace, "commit")
             /\ \A e \in store' : e.identifier # resp'.identifier]_vars

\* tag setup and the POST succeeded, file-type setup raised: nothing committed
C2_Witness ==
    /\ resp.handler = "create_event"
    /\ resp.response = InternalServerError
    /\ Len(resp.trace) = 4
    /\ resp.trace[3] = Http("post_editable_types", 200)
    /\ resp.trace[4] = Raise("setup_file_types")
    /\ ~Known(resp.identifier)

(***************************************************************************)
(* C3                                                                      *)
(***************************************************************************)
\* C3: an authorized remove_event calls cleanup_event before it deletes; when
\* cleanup raises nothing is deleted and the record is still stored, and when
\* it returns the record is deleted and the deletion committed.
C3_CleanupBeforeDelete ==
    [][\A identifier \in Identifiers, auth \in Headers :
          (Authentic(identifier, auth) /\ remove_event(identifier, auth))
          => LET t == resp'.trace
             IN  /\ Len(t) >= 2
                 /\ t[2].step = "cleanup_event"
                 /\ \A i \in 1..Len(t) : t[i].step \in {"delete", "commit"} => i > 2
                 /\ t[2].raised =>
                       /\ store' = store
                       /\ Known(identifier)'
                       /\ ~Ran(t, "delete") /\ ~Ran(t, "commit")
                 /\ ~t[2].raised =>
                       /\ store' = store \ {Stored(identifier)}
                       /\ ~Known(identifier)'
                       /\ Ran(t, "delete") /\ Ran(t, "commit")]_vars

\* cleanup raised in an authorized remove_event and the record is still there
C3_Witness ==
    /\ resp.handler = "remove_event"
    /\ Len(resp.trace) = 2
    /\ resp.trace[2] = Raise("cleanup_event")
    /\ Authentic(resp.identifier, resp.auth)

(***************************************************************************)
(* C4                                                                      *)
(***************************************************************************)
\* the handler's own code ran: a step other than body parsing and the guard
BodyRan(trace) ==
    \E i \in 1..Len(trace) : trace[i].step \notin {"use_kwargs", "require_event_token"}

GuardDecides(identifier, auth) ==
    /\ ~Known(identifier) => resp'.response = NotFound
    /\ (Known(identifier) /\ ~HasBearerForm(auth)) => resp'.response = TokenMissing
    /\ (Known(identifier) /\ HasBearerForm(auth)
          /\ Presented(auth) # Stored(identifier).token) => resp'.response = InvalidToken
    /\ BodyRan(resp'.trace) => Authentic(identifier, auth)
    /\ Authentic(identifier, auth) =>
          resp'.response \notin {NotFound, TokenMissing, InvalidToken}

C5_RespondsBeforePolling ==
    /\ \A i \in DOMAIN tasks :
          /\ tasks[i].request_polls = 0
          /\ \A j \in DOMAIN tasks[i].processed :
                tasks[i].processed[j].thread # "request"
    /\ (resp.handler = "create_editable" /\ Ran(resp.trace, "setup_requests_session")) =>
          /\ resp.response.status = 201
          /\ ~Ran(resp.trace, "get_revision_details")
          /\ ~Ran(resp.trace, "process_editable_files")

(***************************************************************************)
(* C6                                                                      *)
(***************************************************************************)
ProcessedOnce(t) ==
    /\ Len(t.processed) <= 1
    /\ t.last # 200 => t.processed = <<>>
    /\ t.last = 200 =>
          /\ t.polls = t.misses + 1
          /\ Len(t.processed) = 1
          /\ t.processed[1].after_poll = t.misses + 1
          /\ t.processed[1].event = t.event
          /\ t.processed[1].files = t.revision.files
          /\ t.processed[1].endpoints = t.endpoints
          /\ t.timers = 0

\* C6: a polling task whose polls answered "not visible" k times and then 200
\* has called process_editable_files exactly once, at poll k+1 and at no poll
\* before it, with the event, the revision's files and the endpoints of the
\* create_editable request that started it.
C6_ProcessedOnceWhenVisible ==
    [][/\ \A i \in DOMAIN tasks' : ProcessedOnce(tasks'[i])
       /\ \A identifier \in Identifiers, auth \in Headers, body \in EditableBodies :
             (body.valid /\ Authentic(identifier, auth)
                /\ create_editable(identifier, auth, body))
             => /\ Len(tasks') = Len(tasks) + 1
                /\ tasks'[Len(tasks')].event = Stored(identifier)
                /\ tasks'[Len(tasks')].revision = body.revision
                /\ tasks'[Len(tasks')].endpoints = body.endpoints]_vars

\* two polls missed, the third answered 200, files processed at the third
C6_Witness ==
    \E i \in DOMAIN tasks :
        /\ tasks[i].misses = 2
        /\ tasks[i].polls = 3
        /\ Len(tasks[i].processed) = 1
        /\ tasks[i].processed[1].after_poll = 3
        /\ tasks[i].processed[1].files = <<"paper.pdf">>

C9_InfoRoundTrip ==
    [][\A identifier \in Identifiers, auth \in Headers :
          (/\ registered[identifier] # <<>>
           /\ auth = Header(Bearer \o registered[identifier][1].token)
           /\ get_event_info(identifier, auth))
          => /\ resp'.response.status = 200
             /\ resp'.response.body =
                   <<[identifier |-> identifier,
                      title |-> registered[identifier][1].title,
                      url |-> registered[identifier][1].url,
                      endpoints |-> registered[identifier][1].endpoints]>>
             /\ "token" \notin DOMAIN resp'.response.body[1]
             /\ \A i \in 1..Len(resp'.trace) :
                   resp'.trace[i].step \in {"require_event_token", "EventInfoSchema.dump"}
             /\ UNCHANGED <<store, txn, tasks, registered>>]_vars

\* the info of an event registered with the second body was read back
C9_Witness ==
    /\ resp.handler = "get_event_info"
    /\ resp.response.status = 200
    /\ registered[resp.identifier] # <<>>
    /\ resp.response.body[1].title = "T2"
    /\ resp.response.body[1].url = "u2"
    /\ resp.auth = Header(Bearer \o TOK2)

(***************************************************************************)
(* C10                                                                     *)
(***************************************************************************)
\* C10: a create_editable or review_editable request for an unknown event or
\* with a missing or invalid token is answered NotFound or Unauthorized
\* whatever its body is, and its body is never parsed.
C10_GuardBeforeParsing ==
    (resp.handler \in {"create_editable", "review_editable"}
       /\ ~Authentic(resp.identifier, resp.auth)) =>
          /\ resp.response \in {NotFound, TokenMissing, InvalidToken}
          /\ ~Ran(resp.trace, "use_kwargs")

(***************************************************************************)
(* C11                                                                     *)
(***************************************************************************)
\* the task's captured event is no longer a row of the store
Orphaned(rows, t) == t.event \notin rows

\* C11: remove_event does not cancel a pending polling task: the removal
\* leaves every task and its timer as they were, a task whose event has been
\* deleted keeps a timer outstanding while the revision is not visible, and a
\* poll of such a task that answers 200 calls process_editable_files for the
\* deleted event.
C11_RemovalDoesNotCancel ==
    [][/\ \A identifier \in Identifiers, auth \in Headers :
              remove_event(identifier, auth) => tasks' = tasks
       /\ \A i \in DOMAIN tasks' :
              (Orphaned(store', tasks'[i]) /\ tasks'[i].last # 200)
              => tasks'[i].timers = 1
       /\ \A i \in DOMAIN tasks :
              (/\ Orphaned(store, tasks[i])
               /\ tasks'[i].polls = tasks[i].polls + 1
               /\ tasks'[i].last = 200)
              => /\ Len(tasks'[i].processed) = Len(tasks[i].processed) + 1
                 /\ LET p == tasks'[i].processed[Len(tasks'[i].processed)]
                    IN  p.event = tasks[i].event /\ ~p.stored]_vars

C11_Witness ==
    \E i \in DOMAIN tasks :
        /\ ~Known(tasks[i].event.identifier)
        /\ tasks[i].misses >= 1
        /\ Len(tasks[i].processed) = 1
        /\ tasks[i].processed[1].thread = "timer"
        /\ ~tasks[i].processed[1].stored

(***************************************************************************)
(* C12                                                                     *)
(***************************************************************************)
\* C12: a polling task works on what was captured when its request was
\* authorized: it is created with the stored event, the presented token and
\* the endpoints of the request body; no step changes them; every poll sends
\* its GET to the captured details endpoint with the captured token, and a
\* processing it leads to gets the captured session, event and endpoints,
\* whatever the store holds by then; a poll made by the timer completes no
\* guarded request.
C12_PollsUseSnapshot ==
    [][/\ \A i \in DOMAIN tasks' \ DOMAIN tasks :
              /\ tasks'[i].event \in store
              /\ resp'.handler = "create_editable"
              /\ tasks'[i].event.identifier = resp'.identifier
              /\ resp'.auth.value = Bearer \o tasks'[i].event.token
              /\ tasks'[i].session.Authorization = resp'.auth.value
              /\ tasks'[i].endpoints = resp'.payload.endpoints
              /\ tasks'[i].request.url = resp'.payload.endpoints.revisions.details
              /\ tasks'[i].request.Authorization = resp'.auth.value
       /\ \A i \in DOMAIN tasks :
              /\ tasks'[i].event = tasks[i].event
              /\ tasks'[i].session = tasks[i].session
              /\ tasks'[i].endpoints = tasks[i].endpoints
              /\ tasks'[i].polls # tasks[i].polls
                 => /\ tasks'[i].request.url = tasks[i].endpoints.revisions.details
                    /\ tasks'[i].request.Authorization = Bearer \o tasks[i].event.token
                    /\ resp' = resp
              /\ Len(tasks'[i].processed) > Len(tasks[i].processed)
                 => LET p == tasks'[i].processed[Len(tasks'[i].processed)]
                    IN  /\ p.event = tasks[i].event
                        /\ p.session = tasks[i].session
                        /\ p.endpoints = tasks[i].endpoints]_vars

\* the event was removed and created again with another token, and the task
\* has polled on a timer with the token of the event it was started for
C12_Witness ==
    \E i \in DOMAIN tasks :
        /\ Known(tasks[i].event.identifier)
        /\ Stored(tasks[i].event.identifier).token # tasks[i].event.token
        /\ tasks[i].polls > tasks[i].request_polls
        /\ tasks[i].request.Authorization = Bearer \o tasks[i].event.token
        /\ Len(tasks[i].processed) = 1
        /\ ~tasks[i].processed[1].stored

(***************************************************************************)
(* C13                                                                     *)
(***************************************************************************)
\* C13: with create_event requests racing, also for the same identifier, the
\* store never holds two events with one identifier; a request commits only
\* when no event with its identifier is stored and no racing request replaces
\* a committed row, so at most one of them commits; a request whose flush
\* finds the identifier committed, at once or after waiting for the winner,
\* ends with Conflict and leaves the store as it was.
C13_OneCommitPerIdentifier ==
    [][/\ \A identifier \in Identifiers :
              Cardinality({e \in store' : e.identifier = identifier}) <= 1
       /\ store \subseteq store'
       /\ \A w \in Workers :
              /\ create_event_commit(w) => ~Known(txn[w].event.identifier)
              /\ (txn[w].pc = "waiting" /\ Known(txn[w].event.identifier)
                     /\ create_event_flush(w))
                 => /\ resp'.response = Conflict
                    /\ resp'.payload = txn[w].body
                    /\ txn'[w] = Idle
                    /\ store' = store
              /\ \A identifier \in Identifiers, b \in EventBodies :
                    (Known(identifier)
                       /\ create_event(w, identifier, b.title, b.url, b.token, b.endpoints))
                    => resp'.response = Conflict /\ store' = store]_vars

\* a request waits in its flush while the request it raced with has committed
\* another event under the same identifier
C13_Witness ==
    \E w \in Workers :
        /\ txn[w].pc = "waiting"
        /\ Known(txn[w].event.identifier)
        /\ Stored(txn[w].event.identifier) # txn[w].event
        /\ resp.handler = "create_event"
        /\ resp.response.status = 201

(***************************************************************************)
(* C14                                                                     *)
(***************************************************************************)
\* a poll, the first one or one made by a timer, that was not answered 200
MissedPoll ==
    \E i \in DOMAIN tasks' :
        /\ tasks'[i].last # 200
        /\ i \in DOMAIN tasks => tasks'[i].polls # tasks[i].polls

Done(t) == t.last = 200 /\ t.timers = 0 /\ Len(t.processed) = 1

NoSideEffects ==
    /\ UNCHANGED <<store, txn, tasks, registered>>
    /\ \A i \in 1..Len(resp'.trace) :
          resp'.trace[i].step \in {"use_kwargs", "require_event_token"}

\* what a request that the guard refuses is allowed to have done
Refused(wellformed) ==
    /\ NoSideEffects
    /\ wellformed => resp'.response \in {NotFound, TokenMissing, InvalidToken}

\* C16: a request to a guarded handler that does not present the stored
\* token of a stored event changes nothing: the store, the open transactions
\* and the polling tasks with their timers stay as they are, and the request
\* makes no hub call and calls no collaborator; when its body is well formed
\* its response is the guard's NotFound or Unauthorized.
C16_RejectionHasNoEffect ==
    [][\A identifier \in Identifiers, auth \in Headers :
          ~Authentic(identifier, auth)
          => /\ remove_event(identifier, auth) => Refused(TRUE)
             /\ get_event_info(identifier, auth) => Refused(TRUE)
             /\ \A body \in EditableBodies :
                   create_editable(identifier, auth, body) => Refused(body.valid)
             /\ \A body \in ReviewBodies :
                   review_editable(identifier, auth, body) => Refused(body.valid)]_vars

\* a remove_event with a token that is not the stored one was refused while a
\* polling task of the event is waiting, and the event is still stored
C16_Witness ==
    /\ resp.handler = "remove_event"
    /\ resp.response = InvalidToken
    /\ Known(resp.identifier)
    /\ \E i \in DOMAIN tasks :
          tasks[i].event = Stored(resp.identifier) /\ tasks[i].timers = 1

(***************************************************************************)
(* C17                                                                     *)
(***************************************************************************)
\* the calls of create_event that go out to the hub
HubSetupCalls == {"setup_event_tags", "post_editable_types", "setup_file_types"}

\* C17: a create_event whose endpoints have no editable_types key is aborted
\* before any hub setup call is issued and commits no event.
C17_FailsFastWithoutEditableTypes ==
    (/\ resp.handler = "create_event"
     /\ "editable_types" \notin DOMAIN resp.payload.endpoints)
    => /\ \A i \in 1..Len(resp.trace) : resp.trace[i].step \notin HubSetupCalls
       /\ ~Ran(resp.trace, "commit")
       /\ resp.response.status # 201

(***************************************************************************)
(* C18                                                                     *)
(***************************************************************************)
\* C18: a polling task whose poll was answered 200 and for which
\* process_editable_files has been called is never touched again: no step
\* makes it poll, start a timer or process again, and it has no timer left
\* that could.
C18_DoneIsAbsorbing ==
    [][\A i \in DOMAIN tasks :
          (tasks[i].last = 200 /\ tasks[i].processed # <<>>)
          => /\ tasks'[i] = tasks[i]
             /\ tasks[i].timers = 0
             /\ ~ENABLED TimerFire(i)]_vars

\* a task was done on a timer's thread after a poll that was not answered
\* 200, and a request has been served since
C18_Witness ==
    \E i \in DOMAIN tasks :
        /\ tasks[i].last = 200
        /\ tasks[i].processed # <<>>
        /\ tasks[i].processed[1].thread = "timer"
        /\ tasks[i].processed[1].stored
        /\ resp.handler = "remove_event"
        /\ resp.response.status = 204

(***************************************************************************)
(* C19                                                                     *)
(***************************************************************************)
\* C19: a create_event that ends with Conflict has made no call to the hub:
\* its only step is the flush that raised, whether it found the identifier
\* stored at once or after waiting for the request that committed it; what
\* was registered for the identifier stays as it is.
C19_ConflictBeforeHubCalls ==
    [][\A w \in Workers :
          /\ \A identifier \in Identifiers, b \in EventBodies :
                (Known(identifier)
                   /\ create_event(w, identifier, b.title, b.url, b.token, b.endpoints))
                => /\ resp'.response = Conflict
                   /\ resp'.trace = <<Raise("flush")>>
                   /\ registered' = registered
          /\ (txn[w].pc = "waiting" /\ Known(txn[w].event.identifier)
                 /\ create_event_flush(w))
             => /\ resp'.response = Conflict
                /\ resp'.trace = <<Raise("flush")>>
                /\ registered' = registered
          /\ (resp'.handler = "create_event" /\ resp'.response = Conflict)
             => \A i \in 1..Len(resp'.trace) :
                   resp'.trace[i].step \notin HubSetupCalls]_vars

\* a Conflict was answered to a body with other endpoints than the ones the
\* stored event was registered with, after the flush alone
C19_Witness ==
    /\ resp.handler = "create_event"
    /\ resp.response = Conflict
    /\ Names(resp.trace) = <<"flush">>
    /\ registered[resp.identifier] # <<>>
    /\ registered[resp.identifier][1].endpoints # resp.payload.endpoints
    /\ "editable_types" \in DOMAIN resp.payload.endpoints

(***************************************************************************)
(* C20                                                                     *)
(***************************************************************************)
GuardRefusals == {NotFound, TokenMissing, InvalidToken}

\* the answer of a guarded handler to a well-formed request, by what is
\* stored under the identifier: NotFound while nothing is, and otherwise let
\* through exactly when the header carries the token of the body the stored
\* event was created from
AnswersByStore(identifier, auth, wellformed) ==
    wellformed
    => /\ ~Known(identifier) => resp'.response = NotFound
       /\ Known(identifier)
          => /\ registered[identifier] # <<>>
             /\ resp'.response \notin GuardRefusals
                <=> (HasBearerForm(auth)
                     /\ Presented(auth) = registered[identifier][1].token)

====
